---- MODULE Spec2Model ----
(***************************************************************************)
(* A model of src/main.py: the API-key check, the per-day usage ledger     *)
(* (check_and_update_api_usage), the tier_limit wrapper around the         *)
(* endpoint handlers, and the refresh of the address-range file            *)
(* (update_ips, read_ip_data, write_ip_data).                              *)
(*                                                                         *)
(* The api_keys and api_usage tables live in a remote database and the     *)
(* dataset lives in a file; both are shared by every server process that   *)
(* runs this application.  The code takes no lock and opens no             *)
(* transaction, so each database call and each file operation is one       *)
(* atomic step and the steps of different requests interleave freely.      *)
(*                                                                         *)
(* Spec         the request path: verify_api_key, tier_limit, the ledger   *)
(*              and the handlers, with the dataset file fixed.             *)
(* SpecRefresh  update_ips runs against the dataset file.                  *)
(* SpecOverlap  two update_ips runs at once.                               *)
(* SpecServe    requests served while update_ips runs.                     *)
(* SpecFormat   format_time_until_reset over a range of seconds.           *)
(***************************************************************************)
EXTENDS Integers, Sequences, FiniteSets, TLC

VARIABLES
    api_keys,     \* the api_keys table: a set of rows
    api_usage,    \* the api_usage table: a sequence of rows, the id is the position
    now,          \* the UTC clock, in ticks
    req,          \* the requests being served, one per worker
    calls,        \* the number of requests received so far
    admitted,     \* history: per (user_id, day), the calls the ledger admitted
    failed,       \* history: some ledger call met a persistence error
    raced,        \* history: two ledger calls of one account overlapped
    usage0,       \* history: the api_usage table at the start
    file,         \* the dataset file block_ips.json
    url_data,     \* ai_urls.json under "openai": the agents, in the file's order
    upd,          \* the update_ips runs, one per worker
    runs,         \* the number of update_ips requests received so far
    updaters,     \* the workers that receive update_ips requests
    answers,      \* the answers the upstream gives to a fetch
    seconds,      \* the argument of a call of format_time_until_reset
    formatted     \* what that call returned, <<>> before it returns

vars == <<api_keys, api_usage, now, req, calls, admitted, failed, raced, usage0,
          file, url_data, upd, runs, updaters, answers, seconds, formatted>>

formatVars == <<seconds, formatted>>

refreshVars == <<file, url_data, upd, runs, updaters, answers>>

quotaVars == <<api_keys, api_usage, now, req, calls, admitted, failed, raced, usage0>>

-----------------------------------------------------------------------------
(* Bounds of the model *)

NumWorkers == 2
MaxCalls == 3
MaxRuns == 2
MaxDay == 1
MaxSeconds == 7325
TicksPerDay == 2
NearLimit == 2

(* Constants of the program *)

FreeLimit == 10
BasicLimit == 100
SecondsPerDay == 86400
SecondsPerHour == 3600
SecondsPerMinute == 60
HTTP_OK == 200
HTTP_FORBIDDEN == 403
HTTP_NOT_FOUND == 404
HTTP_TOO_MANY == 429
HTTP_ERROR == 500
HTTP_UNAVAILABLE == 503

Workers == 1..NumWorkers
Days == 0..MaxDay
LastTick == (MaxDay + 1) * TicksPerDay - 1
SecondsPerTick == SecondsPerDay \div TicksPerDay

-----------------------------------------------------------------------------
(* Values *)

\* Tier names as they may be stored in api_keys.tier.
TierNames == {"free", "Basic", "unlimited"}

\* str.lower() on the tier names of the model.
Lower(s) == IF s = "Basic" THEN "basic" ELSE s

\* The account whose requests are followed, and another account whose
\* usage rows share the table.
Users == {"u1", "u2"}

\* The X-API-Key header values a request may carry: none, a key that is in
\* no row, the key of an inactive row, the key of an active row.
NoKey == ""
Tokens == {NoKey, "k_unknown", "k_inactive", "k_active"}

Endpoints == {"protected_route", "get_block_ips", "get_bot_ips", "get_api_usage"}

KnownAgents == {"searchbot", "chatgpt-user", "gptbot"}
BotTypes == {"gptbot", "unknownbot"}

EmptyDataset == [a \in KnownAgents |-> <<>>]
StoredDataset ==
    [a \in KnownAgents |-> IF a = "gptbot" THEN <<>> ELSE <<"10.0.0.0/24">>]

\* block_ips.json: absent, holding `size` characters that are no JSON
\* document, or holding the dump of a dataset.
NoFile == [kind |-> "absent"]
Corrupt(size) == [kind |-> "corrupt", size |-> size]
BadFile == Corrupt(Len("not json"))
Truncated == Corrupt(0)
JsonFile(d) == [kind |-> "json", openai |-> d]

-----------------------------------------------------------------------------
(* format_time_until_reset: the text is kept as the tuple of its parts *)

\* The minutes taken from the whole duration and not from what the hours
\* leave.
format_time_total_minutes(s) ==
    LET hours == s \div SecondsPerHour
        remainder == s % SecondsPerHour
        minutes == s \div SecondsPerMinute
        secs == remainder % SecondsPerMinute
    IN  IF hours > 0 THEN <<hours, " hours, ", minutes, " minutes">>
        ELSE IF minutes > 0 THEN <<minutes, " minutes, ", secs, " seconds">>
        ELSE <<secs, " seconds">>

\* divmod(int(seconds), 3600), divmod(remainder, 60) and the three texts.
format_time_until_reset(s) ==
    LET hours == s \div SecondsPerHour
        remainder == s % SecondsPerHour
        minutes == remainder \div SecondsPerMinute
        secs == remainder % SecondsPerMinute
    IN  IF hours > 0 THEN <<hours, " hours, ", minutes, " minutes">>
        ELSE IF minutes > 0 THEN <<minutes, " minutes, ", secs, " seconds">>
        ELSE <<secs, " seconds">>

-----------------------------------------------------------------------------
(* The dataset file *)

\* read_ip_data: the parsed file, or the default when the file is absent
\* or does not parse.
read_ip_data(f) ==
    IF f.kind = "json" THEN f.openai ELSE EmptyDataset

-----------------------------------------------------------------------------
(* The api_usage table *)

Row(u, d, c) == [user_id |-> u, date |-> d, count |-> c]

\* The select without its filter on the date.
SelectUsageAnyDay(table, u, d) ==
    {i \in 1..Len(table) : table[i].user_id = u}

\* select * from api_usage where user_id = u and date = d: the ids found.
SelectUsage(table, u, d) ==
    {i \in 1..Len(table) : table[i].user_id = u /\ table[i].date = d}

\* insert {user_id, date, count: 1}
InsertUsage(table, u, d) == Append(table, Row(u, d, 1))

\* update api_usage set count = c where id = i
UpdateUsage(table, i, c) == [table EXCEPT ![i].count = c]

\* today = now.date()
DateOf(t) == t \div TicksPerDay

\* reset_time = datetime.combine(today, time(0, 0)) + timedelta(days=1)
ResetTime(today) == (today + 1) * TicksPerDay

\* The limit matched on the tier name as stored, without lower().
TierLimitCaseSensitive(tier) ==
    IF tier = "free" THEN <<FreeLimit>>
    ELSE IF tier = "basic" THEN <<BasicLimit>>
    ELSE <<>>

\* limit = 10 if free, 100 if basic, else float('inf'): <<>> stands for inf.
TierLimit(tier) ==
    IF Lower(tier) = "free" THEN <<FreeLimit>>
    ELSE IF Lower(tier) = "basic" THEN <<BasicLimit>>
    ELSE <<>>

\* The comparison off by one: new_count >= limit.
OverLimitOffByOne(new_count, limit) == limit # <<>> /\ new_count >= limit[1]

\* new_count > limit
OverLimit(new_count, limit) == limit # <<>> /\ new_count > limit[1]

-----------------------------------------------------------------------------
(* Requests *)

NoResponse == [status |-> 0, body |-> ""]

\* A worker that serves no request.  After a request the record keeps what
\* the request was and how it ended, until the next request arrives.
Idle ==
    [pc |-> "idle", token |-> NoKey, user_id |-> "", tier |-> "",
     t0 |-> 0, today |-> 0, reset_time |-> 0, id |-> 0, new_count |-> 0,
     allowed |-> FALSE, path |-> "none", invoked |-> FALSE,
     endpoint |-> "", bot_type |-> "", t1 |-> 0, response |-> NoResponse]

\* The query without its filter on is_active.
SelectKeyAnyState(table, key) ==
    {r \in table : r.api_key = key}

\* The rows of api_keys a query for an active key returns.
SelectKey(table, key) ==
    {r \in table : r.api_key = key /\ r.is_active}

InLedger(p) == req[p].pc \in {"insert", "update"}

\* The request of worker p ends with response r.
Finish(p, r) ==
    [req[p] EXCEPT !.pc = "idle", !.response = r, !.t0 = 0, !.today = 0,
                   !.reset_time = 0, !.id = 0, !.new_count = 0, !.t1 = 0]

-----------------------------------------------------------------------------
(* verify_api_key *)

Forbidden(detail) == [status |-> HTTP_FORBIDDEN, body |-> detail]
ServerError(detail) == [status |-> HTTP_ERROR, body |-> detail]

\* What verify_api_key does with the header value `key` when the query of
\* api_keys returns `rows`: a 403, or the api_key_data of the first row.
VerifyResult(key, rows) ==
    IF key = NoKey THEN {[ok |-> FALSE, error |-> Forbidden("API Key is required")]}
    ELSE IF rows = {} THEN {[ok |-> FALSE, error |-> Forbidden("Invalid or inactive API Key")]}
    ELSE {[ok |-> TRUE, user_id |-> r.user_id, tier |-> r.tier] : r \in rows}

\* How verify_api_key ends for the header value `key`: without a key it
\* raises 403 before any query; with one, the query of api_keys (line 69,
\* outside any try) answers and VerifyResult decides, or it raises and the
\* request ends in a 500.
VerifyOutcomes(key, table) ==
    VerifyResult(key, SelectKey(table, key))
       \cup (IF key = NoKey THEN {}
             ELSE {[ok |-> FALSE, error |-> ServerError("APIError")]})

\* A request arrives at worker p with its X-API-Key header; the framework
\* resolves the verify_api_key dependency before it calls the endpoint.
verify_api_key(p) ==
    /\ req[p].pc = "idle"
    /\ calls < MaxCalls
    /\ calls' = calls + 1
    /\ \E k \in Tokens :
          LET r == [Idle EXCEPT !.token = k]
          IN  \E v \in VerifyOutcomes(k, api_keys) :
                 IF v.ok
                 THEN req' = [req EXCEPT ![p] =
                                [r EXCEPT !.pc = "check", !.user_id = v.user_id,
                                          !.tier = v.tier]]
                 ELSE req' = [req EXCEPT ![p] = [r EXCEPT !.response = v.error]]
    /\ UNCHANGED <<api_keys, api_usage, now, admitted, failed, raced, usage0,
                   refreshVars, formatVars>>

-----------------------------------------------------------------------------
(* check_and_update_api_usage: what it returns on each of its paths *)

ReturnInserted(reset_time) == <<TRUE, reset_time>>
ReturnDenied(reset_time) == <<FALSE, reset_time>>
ReturnUpdated(reset_time) == <<TRUE, reset_time>>
ReturnFailClosed(reset_time) == <<FALSE, reset_time>>
ReturnFailOpen(reset_time) == <<TRUE, reset_time>>

\* The call of worker p returns ret by way of path.
Return(r, path, ret) ==
    [r EXCEPT !.pc = "wrapper", !.path = path, !.allowed = ret[1],
              !.reset_time = ret[2]]

Admit(u, d, ret) ==
    IF ret[1] THEN [admitted EXCEPT ![<<u, d>>] = @ + 1] ELSE admitted

\* Lines 261-263: read the clock; today and reset_time follow from it.
\* The select is sent afterwards, and time and the other server processes
\* move while it is on its way.
check_and_update_api_usage_now(p) ==
    /\ req[p].pc = "check"
    /\ req' = [req EXCEPT ![p] =
                 [@ EXCEPT !.pc = "select", !.t0 = now, !.today = DateOf(now),
                           !.reset_time = ResetTime(DateOf(now))]]
    /\ UNCHANGED <<api_keys, api_usage, now, calls, admitted, failed, raced,
                   usage0, refreshVars, formatVars>>

\* Lines 265-278: select the row of the day read at line 262; with no row
\* go on to the insert, with a row either deny or go on to the update.
check_and_update_api_usage_select(p) ==
    LET u == req[p].user_id
        today == req[p].today
        reset_time == req[p].reset_time
        limit == TierLimit(req[p].tier)
        r == req[p]
    IN  /\ req[p].pc = "select"
        /\ raced' = (raced \/ \E q \in Workers \ {p} :
                                  InLedger(q) /\ req[q].user_id = u)
        /\ \/ /\ req' = [req EXCEPT ![p] =
                            Return(r, "failopen", ReturnFailOpen(reset_time))]
              /\ admitted' = Admit(u, today, ReturnFailOpen(reset_time))
              /\ failed' = TRUE
           \/ /\ SelectUsage(api_usage, u, today) = {}
              /\ req' = [req EXCEPT ![p] = [r EXCEPT !.pc = "insert"]]
              /\ UNCHANGED <<admitted, failed>>
           \/ \E i \in SelectUsage(api_usage, u, today) :
                 LET new_count == api_usage[i].count + 1
                 IN  /\ IF OverLimit(new_count, limit)
                        THEN /\ req' = [req EXCEPT ![p] =
                                          Return(r, "deny", ReturnDenied(reset_time))]
                             /\ admitted' = Admit(u, today, ReturnDenied(reset_time))
                        ELSE /\ req' = [req EXCEPT ![p] =
                                          [r EXCEPT !.pc = "update",
                                                    !.id = i, !.new_count = new_count]]
                             /\ UNCHANGED admitted
                     /\ UNCHANGED failed
        /\ UNCHANGED <<api_keys, api_usage, now, calls, usage0, refreshVars, formatVars>>

\* Lines 269-270: insert the first row of the day.
check_and_update_api_usage_insert(p) ==
    LET u == req[p].user_id
        today == req[p].today
        reset_time == req[p].reset_time
    IN  /\ req[p].pc = "insert"
        /\ \/ /\ req' = [req EXCEPT ![p] =
                            Return(req[p], "failopen", ReturnFailOpen(reset_time))]
              /\ admitted' = Admit(u, today, ReturnFailOpen(reset_time))
              /\ failed' = TRUE
              /\ UNCHANGED api_usage
           \/ /\ api_usage' = InsertUsage(api_usage, u, today)
              /\ req' = [req EXCEPT ![p] =
                            Return(req[p], "insert", ReturnInserted(reset_time))]
              /\ admitted' = Admit(u, today, ReturnInserted(reset_time))
              /\ UNCHANGED failed
        /\ UNCHANGED <<api_keys, now, calls, raced, usage0, refreshVars, formatVars>>

\* Lines 280-281: write the incremented count to the row read.
check_and_update_api_usage_update(p) ==
    LET u == req[p].user_id
        today == req[p].today
        reset_time == req[p].reset_time
    IN  /\ req[p].pc = "update"
        /\ \/ /\ req' = [req EXCEPT ![p] =
                            Return(req[p], "failopen", ReturnFailOpen(reset_time))]
              /\ admitted' = Admit(u, today, ReturnFailOpen(reset_time))
              /\ failed' = TRUE
              /\ UNCHANGED api_usage
           \/ /\ api_usage' = UpdateUsage(api_usage, req[p].id, req[p].new_count)
              /\ req' = [req EXCEPT ![p] =
                            Return(req[p], "update", ReturnUpdated(reset_time))]
              /\ admitted' = Admit(u, today, ReturnUpdated(reset_time))
              /\ UNCHANGED failed
        /\ UNCHANGED <<api_keys, now, calls, raced, usage0, refreshVars, formatVars>>

-----------------------------------------------------------------------------
(* The handlers the wrapper protects *)

Ok(body) == [status |-> HTTP_OK, body |-> body]

protected_route(tier) ==
    Ok([message |-> "This is a protected endpoint", tier |-> tier])

\* The body reads the file and answers with the dataset; nothing it does
\* raises on a dataset read_ip_data returns.
get_block_ips(f) == Ok([openai |-> read_ip_data(f)])

\* hash() of the api_key_data dict, which lru_cache takes to build its key.
DictIsHashable == FALSE

\* lru_cache builds its key from the call's arguments before the body
\* runs; with an unhashable argument the call raises TypeError.
get_bot_ips(bot_type, f) ==
    IF ~DictIsHashable THEN ServerError("TypeError: unhashable type: 'dict'")
    ELSE LET data == read_ip_data(f)
         IN  IF bot_type \in DOMAIN data THEN Ok([bot |-> bot_type, ips |-> data[bot_type]])
             ELSE [status |-> HTTP_NOT_FOUND, body |-> "Bot type not found"]

\* The counts a select for (u, d) may read as result.data[0]['count']; the
\* query states no order, so any matching row may come first.
ReadCounts(table, u, d) ==
    IF SelectUsage(table, u, d) = {} THEN {0}
    ELSE {table[i].count : i \in SelectUsage(table, u, d)}

\* max(0, limit - used_requests)
Remaining(limit, used) ==
    IF limit = <<>> THEN <<>>
    ELSE <<IF limit[1] - used > 0 THEN limit[1] - used ELSE 0>>

\* What get_api_usage returns, its clock read at line 312 having given t
\* and its select at line 316 `used`.
get_api_usage(tier, used, t) ==
    Ok([tier |-> tier,
        used_requests |-> used,
        remaining_requests |-> Remaining(TierLimit(tier), used),
        reset_in_seconds |-> (ResetTime(DateOf(t)) - t) * SecondsPerTick,
        reset_time |-> ResetTime(DateOf(t))])

\* What the handler of route e may return to the wrapper, the worker's
\* request being r: its result, or the 500 of an exception it lets escape.
\* The handler of /api-usage has read the clock (r.t1) before its select
\* is answered.
FuncResults(e, b, r) ==
    CASE e = "protected_route" -> {protected_route(r.tier)}
      [] e = "get_block_ips" -> {get_block_ips(file)}
      [] e = "get_bot_ips" -> {get_bot_ips(b, file)}
      [] e = "get_api_usage" ->
            {ServerError("APIError")} \cup
            {get_api_usage(r.tier, used, r.t1) :
                used \in ReadCounts(api_usage, r.user_id, DateOf(r.t1))}

\* raise HTTPException(429, "API call limit exceeded. Resets in ...")
TooManyRequests(reset_time, t) ==
    [status |-> HTTP_TOO_MANY,
     body |-> format_time_until_reset((reset_time - t) * SecondsPerTick)]

\* The wrapper calling the handler whatever the ledger returned.
CallsFuncAlways(allowed) == TRUE

\* The wrapper's decision on what check_and_update_api_usage returned.
CallsFunc(allowed) == allowed

\* What the wrapper returns when the handler returned `result`.
WrapperReturns(result) == result

\* The answer of route e to a request whose endpoint function returned
\* `result`.  The framework renders the returned value as JSON.  The dict
\* of get_api_usage carries remaining_requests = float('inf') for a tier
\* without limit (line 323), which the JSON encoder refuses (ValueError):
\* the request then ends in a 500 and the dict is never sent.  Every other
\* value the endpoints return is rendered as it is.
JSONResponse(e, result) ==
    IF /\ e = "get_api_usage"
       /\ result.status = HTTP_OK
       /\ result.body.remaining_requests = <<>>
    THEN ServerError("ValueError: Out of range float values are not JSON compliant")
    ELSE result

\* tier_limit.wrapper, lines 105-115, around the handler of route e: call
\* the handler when allowed and return what it returns, else raise 429.
\* The request is answered with the rendering of what the wrapper returns.
\* The handler of /api-usage reads the clock (lines 312-314) and sends its
\* select, which is answered in a later step; the other handlers return
\* without waiting.
tier_limit(p) ==
    LET r == req[p]
    IN  /\ r.pc = "wrapper"
        /\ \/ /\ CallsFunc(r.allowed)
              /\ \E e \in Endpoints, b \in BotTypes :
                    /\ (e # "get_bot_ips" => b = "gptbot")
                    /\ IF e = "get_api_usage"
                       THEN req' = [req EXCEPT ![p] =
                                      [r EXCEPT !.pc = "usage", !.t1 = now,
                                                !.invoked = TRUE, !.endpoint = e,
                                                !.bot_type = b]]
                       ELSE \E result \in FuncResults(e, b, r) :
                               req' = [req EXCEPT ![p] =
                                         [Finish(p, JSONResponse(e, WrapperReturns(result)))
                                             EXCEPT !.invoked = TRUE, !.endpoint = e,
                                                    !.bot_type = b]]
           \/ /\ ~CallsFunc(r.allowed)
              /\ req' = [req EXCEPT ![p] = Finish(p, TooManyRequests(r.reset_time, now))]
        /\ UNCHANGED <<api_keys, api_usage, now, calls, admitted, failed, raced,
                       usage0, refreshVars, formatVars>>

\* Lines 316-333 of get_api_usage: the select is answered or raises, the
\* handler returns, the wrapper returns that and the request is answered.
get_api_usage_select(p) ==
    LET r == req[p]
    IN  /\ r.pc = "usage"
        /\ \E result \in FuncResults(r.endpoint, r.bot_type, r) :
              req' = [req EXCEPT ![p] =
                        Finish(p, JSONResponse(r.endpoint, WrapperReturns(result)))]
        /\ UNCHANGED <<api_keys, api_usage, now, calls, admitted, failed, raced,
                       usage0, refreshVars, formatVars>>

\* Time passes.
Tick ==
    /\ now < LastTick
    /\ now' = now + 1
    /\ UNCHANGED <<api_keys, api_usage, req, calls, admitted, failed, raced,
                   usage0, refreshVars, formatVars>>

-----------------------------------------------------------------------------
(* update_ips *)

\* The X-Update-Key header values: the configured secret and another.
UPDATE_IP_PASS == "secret"
UpdateKeys == {UPDATE_IP_PASS, "wrong"}

\* The lists an upstream may publish.
FetchLists == {<<"10.0.0.0/24">>, <<"10.0.1.0/24", "10.0.2.0/24">>}

\* What a fetch of one agent's URL may end in: the request raises (a
\* transport error or a timeout), the status is not 2xx, the body is not
\* JSON, the body holds no prefixes, or it holds the prefixes of a list.
Failures == {"transport", "status", "malformed", "empty"}
Answers == {[kind |-> k, ips |-> <<>>] : k \in Failures}
              \cup {[kind |-> "ok", ips |-> l] : l \in FetchLists}

\* A worker that runs no update.  After a run the record keeps how the run
\* went, until the next one starts.
NoRun ==
    [pc |-> "idle", i |-> 0, current_data |-> <<>>, updated |-> FALSE,
     errors |-> <<>>, response |-> NoResponse,
     before |-> <<>>, file0 |-> NoFile, results |-> <<>>, wrote |-> FALSE]

\* current_data["openai"][bot_type] = ip_list
SetAgent(data, bot_type, ip_list) ==
    [a \in DOMAIN data \cup {bot_type} |-> IF a = bot_type THEN ip_list ELSE data[a]]

\* The warning the except clause of an answer's kind appends.
Warning(kind, bot_type) ==
    CASE kind = "status" -> <<"HTTP error occurred for ", bot_type>>
      [] kind = "malformed" -> <<"JSON decode error for ", bot_type>>
      [] kind = "transport" -> <<"Unexpected error occurred for ", bot_type>>
      [] kind = "empty" -> <<"No IP data found for ", bot_type>>

\* ip_list = [prefix['ipv4Prefix'] for prefix in data.get('prefixes', [])]
IpList(answer) == IF answer.kind = "ok" THEN answer.ips ELSE <<>>

\* The loop clearing the agent's list on a fetch that yields nothing.
ProcessFetchClearing(run, bot_type, answer) ==
    [run EXCEPT !.current_data = SetAgent(@, bot_type, IpList(answer)),
                !.updated = IF IpList(answer) # <<>> THEN TRUE ELSE @,
                !.errors = IF IpList(answer) # <<>> THEN @
                           ELSE Append(@, Warning(answer.kind, bot_type)),
                !.results = Append(@, answer),
                !.i = @ + 1]

\* The loop ending at the first fetch that fails.
ProcessFetchAborting(run, bot_type, answer) ==
    IF IpList(answer) # <<>>
    THEN [run EXCEPT !.current_data = SetAgent(@, bot_type, IpList(answer)),
                     !.updated = TRUE,
                     !.results = Append(@, answer),
                     !.i = @ + 1]
    ELSE [run EXCEPT !.errors = Append(@, Warning(answer.kind, bot_type)),
                     !.results = Append(@, answer),
                     !.i = Len(url_data) + 1]

\* Lines 214-238, one turn of the loop: a non-empty list replaces the
\* agent's entry and marks the run updated; anything else appends a
\* warning and the loop goes on.
ProcessFetch(run, bot_type, answer) ==
    IF IpList(answer) # <<>>
    THEN [run EXCEPT !.current_data = SetAgent(@, bot_type, IpList(answer)),
                     !.updated = TRUE,
                     !.results = Append(@, answer),
                     !.i = @ + 1]
    ELSE [run EXCEPT !.errors = Append(@, Warning(answer.kind, bot_type)),
                     !.results = Append(@, answer),
                     !.i = @ + 1]

\* errors if errors else None: <<>> stands for None, <<e>> for the list e.
WarningsOrNone(errors) == IF errors # <<>> THEN <<errors>> ELSE <<>>

RECURSIVE TextLength(_)
\* The characters of the items of a list, each on its line: six of indent,
\* two quotes, the text.
TextLength(list) ==
    IF list = <<>> THEN 0 ELSE 8 + Len(Head(list)) + TextLength(Tail(list))

\* The characters json.dump(..., indent=2) writes for a list: [] or the
\* bracket and a newline, the items separated by a comma and a newline,
\* a newline, four of indent and the bracket.
ListLength(list) ==
    IF list = <<>> THEN Len("[]")
    ELSE 2 + TextLength(list) + 2 * (Len(list) - 1) + 6

RECURSIVE EntriesLength(_, _)
\* The characters of the entries of the agents in `keys`: four of indent,
\* the quoted name, a colon and a blank, the list.
EntriesLength(data, keys) ==
    IF keys = {} THEN 0
    ELSE LET a == CHOOSE k \in keys : TRUE
         IN  6 + Len(a) + 2 + ListLength(data[a]) + EntriesLength(data, keys \ {a})

\* The characters json.dump({"openai": data}, f, indent=2) writes.
JsonLength(data) ==
    IF DOMAIN data = {} THEN Len("{") + 1 + Len("  \"openai\": {}") + 1 + Len("}")
    ELSE Len("{") + 1 + Len("  \"openai\": {") + 1
           + EntriesLength(data, DOMAIN data) + 2 * (Cardinality(DOMAIN data) - 1)
           + 1 + Len("  }") + 1 + Len("}")

\* The characters the file holds.
FileSize(f) ==
    CASE f.kind = "json" -> JsonLength(f.openai)
      [] f.kind = "corrupt" -> f.size
      [] OTHER -> 0

\* Line 158, json.dump through the handle opened at line 157: the text is
\* written from the start of the file over what the file holds by then.
\* What another writer has put there beyond the length of the text stays,
\* and the file is no JSON document.
Dump(f, data) ==
    IF FileSize(f) > JsonLength(data) THEN Corrupt(FileSize(f))
    ELSE JsonFile(data)

\* The run writing the file whether or not an agent was updated.
WritesFileAlways(updated) == TRUE

\* if updated: write_ip_data(current_data)
WritesFile(updated) == updated

\* Lines 193-208: check the update key, read both files.
update_ips_start(w) ==
    /\ upd[w].pc = "idle"
    /\ w \in updaters
    /\ runs < MaxRuns
    /\ runs' = runs + 1
    /\ \E x_update_key \in UpdateKeys :
          IF x_update_key # UPDATE_IP_PASS
          THEN upd' = [upd EXCEPT ![w] =
                          [NoRun EXCEPT !.response = Forbidden("Invalid update key")]]
          ELSE upd' = [upd EXCEPT ![w] =
                          [NoRun EXCEPT !.pc = "warmup",
                                        !.current_data = read_ip_data(file),
                                        !.before = read_ip_data(file),
                                        !.file0 = file]]
    /\ UNCHANGED <<formatVars, quotaVars, file, url_data, updaters, answers>>

\* Line 211: the first request, outside the loop's try; when it raises,
\* the run ends in a 500.
update_ips_warmup(w) ==
    /\ upd[w].pc = "warmup"
    /\ \/ upd' = [upd EXCEPT ![w].pc = "idle",
                             ![w].response = ServerError("httpx.TransportError")]
       \/ upd' = [upd EXCEPT ![w].pc = "fetch", ![w].i = 1]
    /\ UNCHANGED <<formatVars, quotaVars, file, url_data, runs, updaters, answers>>

\* Lines 213-238: fetch the next agent's URL and take in the answer.
update_ips_fetch(w) ==
    /\ upd[w].pc = "fetch"
    /\ upd[w].i <= Len(url_data)
    /\ \E answer \in answers :
          upd' = [upd EXCEPT ![w] = ProcessFetch(upd[w], url_data[upd[w].i], answer)]
    /\ UNCHANGED <<formatVars, quotaVars, file, url_data, runs, updaters, answers>>

\* Lines 240-253 after the loop: with an update, write_ip_data opens the
\* file for writing, which empties it; with none, answer 503.
update_ips_finish(w) ==
    /\ upd[w].pc = "fetch"
    /\ upd[w].i > Len(url_data)
    /\ IF WritesFile(upd[w].updated)
       THEN /\ file' = Truncated
            /\ upd' = [upd EXCEPT ![w].pc = "dump", ![w].wrote = TRUE]
       ELSE /\ upd' = [upd EXCEPT ![w].pc = "idle",
                          ![w].response = [status |-> HTTP_UNAVAILABLE,
                                           body |-> upd[w].errors]]
            /\ UNCHANGED file
    /\ UNCHANGED <<formatVars, quotaVars, url_data, runs, updaters, answers>>

\* Lines 158 and 242-247: json.dump writes current_data, then answer 200
\* with the data and the warnings.
update_ips_dump(w) ==
    /\ upd[w].pc = "dump"
    /\ file' = Dump(file, upd[w].current_data)
    /\ upd' = [upd EXCEPT ![w].pc = "idle",
                  ![w].response =
                     Ok([message |-> "IP data update completed with partial success",
                         data |-> upd[w].current_data,
                         warnings |-> WarningsOrNone(upd[w].errors)])]
    /\ UNCHANGED <<formatVars, quotaVars, url_data, runs, updaters, answers>>

-----------------------------------------------------------------------------
(* The request path *)

\* The stored counts an account of tier t may start with on day 0: at or
\* just below its limit; without a limit, at or just above the basic one.
StartCounts(t) ==
    IF TierLimit(t) = <<>> THEN BasicLimit..(BasicLimit + NearLimit)
    ELSE (TierLimit(t)[1] - NearLimit)..TierLimit(t)[1]

\* The tables as earlier runs may have left them: the other account's row,
\* and for the account followed either no row or one row for day 0.
StartTables(t) ==
    {<<Row("u2", 0, 3)>>} \cup {<<Row("u2", 0, 3), Row("u1", 0, c)>> : c \in StartCounts(t)}

KeyRows(t) ==
    {[api_key |-> "k_active", user_id |-> "u1", tier |-> t, is_active |-> TRUE],
     [api_key |-> "k_inactive", user_id |-> "u1", tier |-> t, is_active |-> FALSE]}

Init ==
    /\ \E t \in TierNames :
          /\ api_keys = KeyRows(t)
          /\ api_usage \in StartTables(t)
    /\ usage0 = api_usage
    /\ now = 0
    /\ req = [p \in Workers |-> Idle]
    /\ calls = 0
    /\ admitted = [k \in Users \X Days |-> 0]
    /\ failed = FALSE
    /\ raced = FALSE
    /\ file = JsonFile(StoredDataset)
    /\ url_data = <<>>
    /\ upd = [w \in Workers |-> NoRun]
    /\ runs = 0
    /\ updaters = {}
    /\ answers = {}
    /\ seconds = 0
    /\ formatted = <<>>

Next ==
    \/ \E p \in Workers : verify_api_key(p)
    \/ \E p \in Workers : check_and_update_api_usage_now(p)
    \/ \E p \in Workers : check_and_update_api_usage_select(p)
    \/ \E p \in Workers : check_and_update_api_usage_insert(p)
    \/ \E p \in Workers : check_and_update_api_usage_update(p)
    \/ \E p \in Workers : tier_limit(p)
    \/ \E p \in Workers : get_api_usage_select(p)
    \/ Tick

Spec == Init /\ [][Next]_vars

-----------------------------------------------------------------------------
(* The refresh of the dataset *)

AllAgents == <<"searchbot", "chatgpt-user", "gptbot">>

\* A source map that names two of the agents, in another order.
SomeAgents == <<"gptbot", "searchbot">>

\* A source map that names an agent outside the known three; read_url_data
\* returns whatever names ai_urls.json holds.
OtherAgents == <<"gptbot", "oai-searchbot">>

\* The update runs of one worker against every answer of the upstream; the
\* file is absent, unreadable or holds a dataset; ai_urls.json is absent,
\* names the three agents, some of them, or an agent besides them.
InitRefresh ==
    /\ api_keys = {}
    /\ api_usage = <<>>
    /\ usage0 = <<>>
    /\ now = 0
    /\ req = [p \in Workers |-> Idle]
    /\ calls = 0
    /\ admitted = [k \in Users \X Days |-> 0]
    /\ failed = FALSE
    /\ raced = FALSE
    /\ file \in {NoFile, BadFile, JsonFile(StoredDataset)}
    /\ url_data \in {<<>>, AllAgents, SomeAgents, OtherAgents}
    /\ upd = [w \in Workers |-> NoRun]
    /\ runs = 0
    /\ updaters = {1}
    /\ answers = Answers
    /\ seconds = 0
    /\ formatted = <<>>

NextRefresh ==
    \/ \E w \in Workers : update_ips_start(w)
    \/ \E w \in Workers : update_ips_warmup(w)
    \/ \E w \in Workers : update_ips_fetch(w)
    \/ \E w \in Workers : update_ips_finish(w)
    \/ \E w \in Workers : update_ips_dump(w)

SpecRefresh == InitRefresh /\ [][NextRefresh]_vars

-----------------------------------------------------------------------------
(* Overlapping refreshes *)

\* The answers of the upstream in the runs that overlap: a non-2xx status,
\* or a list that differs from every stored one.
OverlapAnswers ==
    {[kind |-> "status", ips |-> <<>>],
     [kind |-> "ok", ips |-> <<"10.0.1.0/24", "10.0.2.0/24">>]}

\* update_ips is a coroutine that awaits at the warm-up request, at the
\* sleep and at every fetch: a second request for /update-ips is served
\* while the first is suspended there, on any worker.
InitOverlap ==
    /\ api_keys = {}
    /\ api_usage = <<>>
    /\ usage0 = <<>>
    /\ now = 0
    /\ req = [p \in Workers |-> Idle]
    /\ calls = 0
    /\ admitted = [k \in Users \X Days |-> 0]
    /\ failed = FALSE
    /\ raced = FALSE
    /\ file = JsonFile(StoredDataset)
    /\ url_data = AllAgents
    /\ upd = [w \in Workers |-> NoRun]
    /\ runs = 0
    /\ updaters = Workers
    /\ answers = OverlapAnswers
    /\ seconds = 0
    /\ formatted = <<>>

SpecOverlap == InitOverlap /\ [][NextRefresh]_vars

-----------------------------------------------------------------------------
(* Requests served while a refresh runs *)

\* One worker receives the update_ips requests, the others serve the
\* requests of an account without a limit; the file holds a dataset.
InitServe ==
    /\ api_keys = KeyRows("unlimited")
    /\ api_usage \in StartTables("unlimited")
    /\ usage0 = api_usage
    /\ now = 0
    /\ req = [p \in Workers |-> Idle]
    /\ calls = 0
    /\ admitted = [k \in Users \X Days |-> 0]
    /\ failed = FALSE
    /\ raced = FALSE
    /\ file = JsonFile(StoredDataset)
    /\ url_data = AllAgents
    /\ upd = [w \in Workers |-> NoRun]
    /\ runs = 0
    /\ updaters = {NumWorkers}
    /\ answers = OverlapAnswers
    /\ seconds = 0
    /\ formatted = <<>>

NextServe ==
    \/ \E p \in Workers \ updaters : verify_api_key(p)
    \/ \E p \in Workers \ updaters : check_and_update_api_usage_now(p)
    \/ \E p \in Workers \ updaters : check_and_update_api_usage_select(p)
    \/ \E p \in Workers \ updaters : check_and_update_api_usage_insert(p)
    \/ \E p \in Workers \ updaters : check_and_update_api_usage_update(p)
    \/ \E p \in Workers \ updaters : tier_limit(p)
    \/ \E p \in Workers \ updaters : get_api_usage_select(p)
    \/ \E w \in Workers : update_ips_start(w)
    \/ \E w \in Workers : update_ips_warmup(w)
    \/ \E w \in Workers : update_ips_fetch(w)
    \/ \E w \in Workers : update_ips_finish(w)
    \/ \E w \in Workers : update_ips_dump(w)

SpecServe == InitServe /\ [][NextServe]_vars

-----------------------------------------------------------------------------
(* format_time_until_reset on its own *)

\* A call of format_time_until_reset with a whole number of seconds.
InitFormat ==
    /\ api_keys = {}
    /\ api_usage = <<>>
    /\ usage0 = <<>>
    /\ now = 0
    /\ req = [p \in Workers |-> Idle]
    /\ calls = 0
    /\ admitted = [k \in Users \X Days |-> 0]
    /\ failed = FALSE
    /\ raced = FALSE
    /\ file = NoFile
    /\ url_data = <<>>
    /\ upd = [w \in Workers |-> NoRun]
    /\ runs = 0
    /\ updaters = {}
    /\ answers = {}
    /\ seconds \in 0..MaxSeconds
    /\ formatted = <<>>

\* The call returns.
FormatCall ==
    /\ formatted = <<>>
    /\ formatted' = format_time_until_reset(seconds)
    /\ UNCHANGED <<quotaVars, refreshVars, seconds>>

SpecFormat == InitFormat /\ [][FormatCall]_vars

-----------------------------------------------------------------------------
(* Properties of the request path *)

\* The rows of (u, d), stated on the table itself.
RowsOf(table, u, d) ==
    {i \in 1..Len(table) : table[i].user_id = u /\ table[i].date = d}

\* The count stored for (u, d): the sum over its rows.
RECURSIVE SumCounts(_, _)
SumCounts(table, ids) ==
    IF ids = {} THEN 0
    ELSE LET i == CHOOSE x \in ids : TRUE
         IN  table[i].count + SumCounts(table, ids \ {i})

TotalCount(table, u, d) == SumCounts(table, RowsOf(table, u, d))

\* The limit of a tier as the specification states it.
SpecLimit(tier) ==
    CASE tier \in {"free", "Free", "FREE"} -> FreeLimit
      [] tier \in {"basic", "Basic", "BASIC"} -> BasicLimit

Limited(tier) == tier \in {"free", "Free", "FREE", "basic", "Basic", "BASIC"}

\* C1: with no persistence error and the calls of an account issued one
\* after another, the stored count of every (account, day) is the count at
\* the start plus the calls admitted since, a limited account's count never
\* passes its limit, and a call is denied only when the count stands at the
\* limit, where it stays: the denied call writes nothing.
C1_DeniedAtLimit ==
    (~failed /\ ~raced) =>
        /\ \A u \in Users, d \in Days :
              TotalCount(api_usage, u, d) = TotalCount(usage0, u, d) + admitted[<<u, d>>]
        /\ \A p \in Workers :
              (req[p].pc = "wrapper" /\ Limited(req[p].tier)) =>
                 /\ TotalCount(api_usage, req[p].user_id, req[p].today)
                       <= SpecLimit(req[p].tier)
                 /\ (req[p].allowed = FALSE) =>
                       TotalCount(api_usage, req[p].user_id, req[p].today)
                          = SpecLimit(req[p].tier)

\* A basic account that started the day two calls below its limit has had
\* two calls admitted and the third one denied.
C1_Witness ==
    \E p \in Workers :
       /\ ~failed /\ ~raced
       /\ req[p].pc = "wrapper" /\ req[p].allowed = FALSE
       /\ req[p].tier = "Basic"
       /\ admitted[<<req[p].user_id, req[p].today>>] = 2
       /\ TotalCount(api_usage, req[p].user_id, req[p].today) = BasicLimit

\* C2: with no persistence error, once no ledger call is in progress the
\* stored count of every (account, day) has grown by exactly the number of
\* calls admitted, under every interleaving.
C2_CountEqualsAdmitted ==
    (~failed /\ \A p \in Workers : req[p].pc \notin {"check", "select", "insert", "update"}) =>
        \A u \in Users, d \in Days :
           TotalCount(api_usage, u, d) = TotalCount(usage0, u, d) + admitted[<<u, d>>]

\* C3: at most one row per (account, day), and no negative count.
C3_OneRowPerDay ==
    /\ \A u \in Users, d \in Days : Cardinality(RowsOf(api_usage, u, d)) <= 1
    /\ \A i \in 1..Len(api_usage) : api_usage[i].count >= 0

\* C4: a ledger call in which a persistence operation raised returns
\* admitted = true and the midnight that follows the call's reading of the
\* clock, whatever the tier and the stored count; the wrapper then calls
\* the handler and answers with no 429.
C4_FailOpen ==
    \A p \in Workers :
       req[p].path = "failopen" =>
          /\ req[p].allowed
          /\ req[p].pc = "wrapper" =>
                /\ req[p].reset_time > req[p].t0
                /\ req[p].reset_time - req[p].t0 <= TicksPerDay
                /\ req[p].reset_time % TicksPerDay = 0
          /\ req[p].pc = "idle" =>
                /\ req[p].invoked
                /\ req[p].response.status # HTTP_TOO_MANY

\* A free account whose count stands at the limit is served all the same
\* after its ledger call met a persistence error.
C4_Witness ==
    \E p \in Workers :
       /\ req[p].path = "failopen" /\ req[p].pc = "idle" /\ req[p].invoked
       /\ req[p].tier = "free"
       /\ TotalCount(api_usage, req[p].user_id, 0) = FreeLimit
       /\ now < TicksPerDay

\* C5, as stated: every call that has returned on day 1, the account having
\* a day-0 row, was admitted if it was the day's first and has left a row
\* for day 1.
C5_Original ==
    \A p \in Workers :
       (/\ req[p].pc = "wrapper" /\ req[p].today = 1
        /\ RowsOf(api_usage, req[p].user_id, 0) # {}) =>
          RowsOf(api_usage, req[p].user_id, 1) # {}

C5Step(p) ==
    LET r == req[p]
        r2 == req'[p]
    IN  \* the day of a call is the day on which it reads the clock
        /\ (r.pc = "check" /\ r2.pc # "check") =>
              r2.pc = "select" /\ r2.today = DateOf(now)
        \* the call that finds no row for its day is not denied
        /\ (/\ r.pc = "select" /\ r2.pc # "select"
            /\ RowsOf(api_usage, r.user_id, r.today) = {}) =>
              \/ r2.pc = "insert" /\ r2.today = r.today
              \/ r2.pc = "wrapper" /\ r2.allowed
        \* it is admitted, and its insert adds the row (account, day, 1)
        /\ (r.pc = "insert" /\ r2.pc # "insert") =>
              /\ r2.pc = "wrapper" /\ r2.allowed
              /\ r2.path # "failopen" =>
                    api_usage' = Append(api_usage, Row(r.user_id, r.today, 1))
        \* no step of a call changes a row of another day
        /\ (r.pc \in {"check", "select", "insert", "update"} /\ r2 # r) =>
              \A i \in 1..Len(api_usage) :
                 api_usage[i].date # r2.today => api_usage'[i] = api_usage[i]

\* C5 (amended): whatever is stored for day D, the first call of day D+1
\* is admitted and, unless one of its persistence operations raises,
\* creates the row (account, D+1, 1); the rows of day D are left as they
\* were.
C5_DayIsolation == [][\A p \in Workers : C5Step(p)]_vars

\* A free account with its day-0 count at the limit has had its first call
\* of day 1 admitted, with a fresh row of count 1.
C5_Witness ==
    \E p \in Workers :
       /\ req[p].pc = "wrapper" /\ req[p].path = "insert" /\ req[p].today = 1
       /\ req[p].tier = "free"
       /\ TotalCount(api_usage, req[p].user_id, 0) = FreeLimit
       /\ TotalCount(api_usage, req[p].user_id, 1) = 1

C6Step(p) ==
    LET r == req[p]
        r2 == req'[p]
    IN  /\ (r.pc = "wrapper" /\ r2.pc # "wrapper") =>
              /\ r2.pc \in {"idle", "usage"}
              /\ r2.invoked <=> r.allowed
              /\ (r.allowed /\ r2.pc = "idle") =>
                    \E result \in FuncResults(r2.endpoint, r2.bot_type, r) :
                       r2.response = JSONResponse(r2.endpoint, result)
              \* the handler of /api-usage waits for its select
              /\ r2.pc = "usage" => r.allowed /\ r2.endpoint = "get_api_usage"
              /\ ~r.allowed => r2.pc = "idle" /\ r2.response.status = HTTP_TOO_MANY
        /\ (r.pc = "usage" /\ r2.pc # "usage") =>
              /\ r2.pc = "idle" /\ r2.invoked /\ r2.endpoint = r.endpoint
              /\ \E result \in FuncResults(r.endpoint, r.bot_type, r) :
                    r2.response = JSONResponse(r.endpoint, result)

\* C6: the wrapper calls the handler exactly when the ledger admitted the
\* call; admitted, it returns what the handler returned, unchanged, and
\* the request is answered with the rendering of that value; denied, it
\* answers 429 and the handler is not called.
C6_WrapperGate == [][\A p \in Workers : C6Step(p)]_vars

\* One request was denied with 429 and its handler not called, another
\* was admitted and answered by its handler.
C6_Witness ==
    \E p, q \in Workers :
       /\ req[p].pc = "idle" /\ req[p].path = "deny" /\ ~req[p].invoked
       /\ req[p].response.status = HTTP_TOO_MANY
       /\ req[q].pc = "idle" /\ req[q].path = "update" /\ req[q].invoked
       /\ req[q].response.status = HTTP_OK

\* The header value is the key of an active row of api_keys.
ValidKey(key) == \E k \in api_keys : k.api_key = key /\ k.is_active

\* How a request without an active key was answered: 403, or, with
\* lookupFails, the 500 of a raising api_keys query for a key that was sent.
C7Answer(r, lookupFails) ==
    \/ r.response.status = HTTP_FORBIDDEN
    \/ lookupFails /\ r.token # NoKey /\ r.response = ServerError("APIError")

C7State(lookupFails) ==
    \A p \in Workers :
       LET r == req[p]
       IN  /\ (r.pc # "idle" \/ r.path # "none" \/ r.invoked) => ValidKey(r.token)
           /\ (r.response # NoResponse /\ ~ValidKey(r.token)) =>
                 /\ r.pc = "idle"
                 /\ C7Answer(r, lookupFails)

C7Step ==
    api_usage' # api_usage =>
       \E p \in Workers :
          /\ ValidKey(req[p].token)
          /\ req[p].pc \in {"insert", "update"}
          /\ req'[p].pc = "wrapper"

\* C7, as stated: a request with no key, an unknown key or an inactive key
\* is answered 403 by verify_api_key; only a request with an active key
\* reaches the ledger or the handler, and only the ledger call of such a
\* request changes api_usage.
C7_Original == []C7State(FALSE) /\ [][C7Step]_vars

\* C7 (amended): a request with no key is answered 403; a request with an
\* unknown or inactive key is answered 403, or 500 when the query of
\* api_keys raises; only a request with an active key reaches the ledger or
\* the handler, and only the ledger call of such a request changes
\* api_usage.
C7_ValidationFirst == []C7State(TRUE) /\ [][C7Step]_vars

\* A request with an inactive key was answered 403, one with an unknown
\* key ended in the 500 of the raising query, and the table is as at the
\* start.
C7_Witness ==
    \E p, q \in Workers :
       /\ req[p].token = "k_inactive" /\ req[p].response.status = HTTP_FORBIDDEN
       /\ req[q].token = "k_unknown" /\ req[q].response = ServerError("APIError")
       /\ req[p].path = "none" /\ req[q].path = "none"
       /\ ~req[p].invoked /\ ~req[q].invoked
       /\ api_usage = usage0

\* C14: an admitted GET /block-ips/{bot_type} answers 200 with the agent's
\* list, empty or not, when the agent is a key of the stored dataset, and
\* 404 when it is not; nothing else.
C14_AgentLookup ==
    \A p \in Workers :
       (req[p].pc = "idle" /\ req[p].invoked /\ req[p].endpoint = "get_bot_ips") =>
          LET data == read_ip_data(file)
              b == req[p].bot_type
          IN  IF b \in DOMAIN data
              THEN req[p].response = Ok([bot |-> b, ips |-> data[b]])
              ELSE req[p].response.status = HTTP_NOT_FOUND

\* C15: a request answered 500 has changed nothing: its ledger call has
\* neither inserted a row nor written a count, so that after a sole request
\* the table is the table of the start; and the dataset file is the one
\* stored.
C15_NoPartialMutation ==
    \A p \in Workers :
       (req[p].pc = "idle" /\ req[p].response.status = HTTP_ERROR) =>
          /\ req[p].path \notin {"insert", "update"}
          /\ calls = 1 => api_usage = usage0
          /\ file = JsonFile(StoredDataset)

\* max(0, limit - used) as the specification states it; <<>> is unbounded.
SpecRemaining(tier, used) ==
    IF ~Limited(tier) THEN <<>>
    ELSE IF SpecLimit(tier) > used THEN <<SpecLimit(tier) - used>>
    ELSE <<0>>

\* The wrapper's step for a GET /api-usage request no persistence operation
\* of which raised and whose account had no overlapping ledger calls.
C16Report(p) ==
    LET r == req[p]
        r2 == req'[p]
        u == r.user_id
        d == r.today
    IN  (/\ r.pc \in {"wrapper", "usage"} /\ r2.pc = "idle" /\ ~failed /\ ~raced
         /\ r.allowed => (/\ r2.endpoint = "get_api_usage"
                          /\ r2.response # ServerError("APIError"))) =>
           IF r.allowed
           THEN \* the ledger call has written once, every admitted call
                \* of the day has added one, the handler writes nothing
                \* and reports the count and what is left
                /\ r.path \in {"insert", "update"}
                /\ TotalCount(api_usage, u, d)
                      = TotalCount(usage0, u, d) + admitted[<<u, d>>]
                /\ api_usage' = api_usage
                /\ r2.response.status = HTTP_OK
                /\ r2.response.body.used_requests = TotalCount(api_usage, u, d)
                /\ r2.response.body.remaining_requests
                      = SpecRemaining(r.tier, TotalCount(api_usage, u, d))
           ELSE \* the quota is used up: 429, no report
                /\ Limited(r.tier)
                /\ TotalCount(api_usage, u, d) = SpecLimit(r.tier)
                /\ r2.response.status = HTTP_TOO_MANY
                /\ ~r2.invoked

\* C16: an admitted GET /api-usage, with no persistence error and no
\* concurrent call of the account, adds one to the stored count of
\* (account, today), writes nothing in its handler, and reports
\* used_requests = the stored count after the increment and
\* remaining_requests = max(0, limit - used_requests), unbounded for a tier
\* without limit; with the quota used up it is denied with 429.
C16_UsageCounts == [][\A p \in Workers : C16Report(p)]_vars

\* A step of the ledger call of worker p.  The select sends a call of an
\* account without limit on to its write, computes the count read plus one,
\* and denies only an account with a limit whose count read plus one passes
\* 10 (free) or 100 (basic, in any letter case).  The write of an account
\* without limit returns admitted = true and has stored a row with count 1
\* or the count read plus one; with failOpen, a call in which a persistence
\* operation raised may return admitted = true with nothing stored.
C19Step(p, failOpen) ==
    LET r == req[p]
        r2 == req'[p]
        u == r.user_id
    IN  /\ (r.pc = "select" /\ r2.pc # "select") =>
              /\ ~Limited(r.tier) =>
                    \/ r2.pc \in {"insert", "update"}
                    \/ failOpen /\ r2.pc = "wrapper" /\ r2.allowed
                                /\ r2.path = "failopen"
              /\ r2.pc = "update" =>
                    /\ r2.new_count = api_usage[r2.id].count + 1
                    /\ Limited(r.tier) => r2.new_count <= SpecLimit(r.tier)
              /\ (r2.pc = "wrapper" /\ ~r2.allowed) =>
                    /\ Limited(r.tier)
                    /\ \E i \in RowsOf(api_usage, u, r.today) :
                          api_usage[i].count + 1 > SpecLimit(r.tier)
        /\ (r.pc \in {"insert", "update"} /\ r2.pc = "wrapper" /\ ~Limited(r.tier)) =>
              /\ r2.allowed
              /\ \/ failOpen /\ r2.path = "failopen" /\ api_usage' = api_usage
                 \/ IF r.pc = "insert"
                    THEN api_usage' = Append(api_usage, Row(u, r.today, 1))
                    ELSE api_usage' = [api_usage EXCEPT ![r.id].count = r.new_count]

\* C19, as stated: a call of an account without limit is never denied, for
\* every stored count it returns admitted = true and adds one to the count;
\* the limits are 10 for free and 100 for basic in any letter case.
C19_Original == [][\A p \in Workers : C19Step(p, FALSE)]_vars

\* C19 (amended): the same, except that a call in which a persistence
\* operation raises returns admitted = true and stores nothing.
C19_UnlimitedNeverDenied == [][\A p \in Workers : C19Step(p, TRUE)]_vars

\* An account without limit whose count stood above every limit has had two
\* more calls admitted and counted.
C19_Witness ==
    \E p \in Workers :
       /\ ~failed /\ ~raced
       /\ req[p].pc = "wrapper" /\ req[p].tier = "unlimited"
       /\ req[p].allowed /\ req[p].path = "update"
       /\ admitted[<<req[p].user_id, 0>>] = 2
       /\ TotalCount(usage0, req[p].user_id, 0) > BasicLimit
       /\ TotalCount(api_usage, req[p].user_id, 0)
             = TotalCount(usage0, req[p].user_id, 0) + 2

\* The calls admitted for account u on day d: those the stored count of
\* the start stands for and those admitted since.
AdmittedOnDay(u, d) == TotalCount(usage0, u, d) + admitted[<<u, d>>]

\* C20: with no persistence error, the calls admitted for a free or basic
\* account on one day never pass the limit of its tier, however the ledger
\* calls interleave.
C20_QuotaUnderConcurrency ==
    ~failed =>
       \A k \in api_keys :
          Limited(k.tier) =>
             \A d \in Days : AdmittedOnDay(k.user_id, d) <= SpecLimit(k.tier)

-----------------------------------------------------------------------------
(* Properties of the refresh *)

\* A run that went through its loop and answered.
RunEnded(u) == u.pc = "idle" /\ u.response.status \in {HTTP_OK, HTTP_UNAVAILABLE}

\* The positions of url_data whose fetch failed or yielded no prefixes,
\* and those that yielded a list, in the run u.
FailedAt(u) == {k \in 1..Len(u.results) : u.results[k].kind # "ok"}
FetchedAt(u) == {k \in 1..Len(u.results) : u.results[k].kind = "ok"}

\* The list stored for agent a in the file f as a reader finds it.
StoredList(f, a) ==
    IF f.kind = "json" /\ a \in DOMAIN f.openai THEN f.openai[a] ELSE <<>>

\* C8: after a run, each agent whose fetch failed or yielded nothing has in
\* the file the list it had when the run began, and no list that was not
\* empty has become empty.
C8_StaleNotEmpty ==
    \A w \in Workers :
       RunEnded(upd[w]) =>
          /\ \A k \in FailedAt(upd[w]) :
                StoredList(file, url_data[k]) = StoredList(upd[w].file0, url_data[k])
          /\ \A a \in KnownAgents \cup {url_data[k] : k \in 1..Len(url_data)} :
                StoredList(upd[w].file0, a) # <<>> => StoredList(file, a) # <<>>

\* A run answered 200 that updated one agent while the fetch of searchbot
\* gave no prefixes and that of gptbot failed, searchbot keeping its list.
C8_Witness ==
    \E w \in Workers :
       /\ RunEnded(upd[w]) /\ upd[w].response.status = HTTP_OK
       /\ Len(upd[w].results) = 3
       /\ upd[w].results[1].kind = "empty"
       /\ upd[w].results[2].kind = "ok"
       /\ upd[w].results[3].kind = "transport"
       /\ StoredList(file, "searchbot") = <<"10.0.0.0/24">>
       /\ StoredList(file, "chatgpt-user") = <<"10.0.1.0/24", "10.0.2.0/24">>

\* C9: a run in which no agent was updated answers 503 with one warning
\* per configured agent, writes nothing, and leaves the file as it was.
C9_TotalFailure ==
    \A w \in Workers :
       (RunEnded(upd[w]) /\ FetchedAt(upd[w]) = {}) =>
          /\ upd[w].response.status = HTTP_UNAVAILABLE
          /\ upd[w].response.body = upd[w].errors
          /\ Len(upd[w].errors) = Len(url_data)
          /\ \A k \in 1..Len(url_data) :
                upd[w].errors[k] = Warning(upd[w].results[k].kind, url_data[k])
          /\ ~upd[w].wrote
          /\ file = upd[w].file0

\* Three agents failed in three ways, the run answered 503 and the stored
\* dataset is in place.
C9_Witness ==
    \E w \in Workers :
       /\ RunEnded(upd[w])
       /\ Len(upd[w].results) = 3
       /\ upd[w].results[1].kind = "status"
       /\ upd[w].results[2].kind = "malformed"
       /\ upd[w].results[3].kind = "transport"
       /\ upd[w].response.status = HTTP_UNAVAILABLE
       /\ file = JsonFile(StoredDataset)

\* The dataset a run that began with `before` is to store after the
\* answers `results`.
Merged(before, results) ==
    [a \in DOMAIN before \cup {url_data[k] : k \in {j \in 1..Len(results) :
                                                     results[j].kind = "ok"}} |->
        IF \E k \in 1..Len(results) : url_data[k] = a /\ results[k].kind = "ok"
        THEN results[CHOOSE k \in 1..Len(results) :
                        url_data[k] = a /\ results[k].kind = "ok"].ips
        ELSE before[a]]

\* C10: a run in which some agent yielded a list has tried every
\* configured agent, answers 200, has stored the dataset in which each
\* agent that yielded a list has that list and each other agent its list
\* of before, answers with that dataset, and carries one warning per
\* failing agent (None when no agent failed).
C10_PartialSuccess ==
    \A w \in Workers :
       (RunEnded(upd[w]) /\ FetchedAt(upd[w]) # {}) =>
          /\ Len(upd[w].results) = Len(url_data)
          /\ upd[w].response.status = HTTP_OK
          /\ file = JsonFile(Merged(read_ip_data(upd[w].file0), upd[w].results))
          /\ upd[w].response.body.data = file.openai
          /\ IF FailedAt(upd[w]) = {}
             THEN upd[w].response.body.warnings = <<>>
             ELSE LET warnings == upd[w].response.body.warnings[1]
                  IN  /\ Len(warnings) = Cardinality(FailedAt(upd[w]))
                      /\ \A k \in FailedAt(upd[w]) :
                            \E j \in 1..Len(warnings) : warnings[j][2] = url_data[k]

\* Two agents yielded lists and one met an HTTP error: 200 with one
\* warning, the file holding the two new lists and the third agent's old one.
C10_Witness ==
    \E w \in Workers :
       /\ RunEnded(upd[w]) /\ upd[w].response.status = HTTP_OK
       /\ Len(upd[w].results) = 3
       /\ upd[w].results[1].kind = "ok"
       /\ upd[w].results[2].kind = "status"
       /\ upd[w].results[3].kind = "ok"
       /\ Len(upd[w].response.body.warnings[1]) = 1
       /\ upd[w].file0 = JsonFile(StoredDataset)
       /\ StoredList(file, "chatgpt-user") = <<"10.0.0.0/24">>
       /\ StoredList(file, "gptbot") # <<>>

\* C13: a run is marked updated only if the list of some agent differs
\* from the list the run read at its start; a refresh whose upstream lists
\* are the stored ones is not marked updated.
C13_MergeIdempotence ==
    \A w \in Workers :
       upd[w].updated => upd[w].current_data # upd[w].before

\* C17: the agents of the dataset are the three known ones in every
\* state: in what a load of the file returns (the file absent or unreadable
\* included), in the copy a run works on, and in what a run answers with.
\* A refresh adds no agent and removes none.
C17_FixedAgentKeys ==
    /\ DOMAIN read_ip_data(file) = KnownAgents
    /\ \A w \in Workers :
          /\ (upd[w].pc # "idle" \/ RunEnded(upd[w])) =>
                DOMAIN upd[w].current_data = KnownAgents
          /\ upd[w].response.status = HTTP_OK =>
                DOMAIN upd[w].response.body.data = KnownAgents

-----------------------------------------------------------------------------
(* Properties of overlapping refreshes *)

\* The refreshes in flight: past the key check and not yet answered.
InFlight == {w \in Workers : upd[w].pc # "idle"}

\* The dataset left by run a followed by run b, a having read a.before.
Serial(a, b) == Merged(Merged(a.before, a.results), b.results)

C11_OneInFlight == Cardinality(InFlight) <= 1

C11_SerialOutcome ==
    \A v, w \in Workers :
       (v # w /\ RunEnded(upd[v]) /\ RunEnded(upd[w])) =>
          read_ip_data(file) \in {Serial(upd[v], upd[w]), Serial(upd[w], upd[v])}

\* C11: at most one refresh is in flight at a time, and when two refreshes
\* have both answered, the stored dataset is what the two leave when run one
\* after the other in some order: no list one of them wrote is replaced by
\* the other's copy of before.
C11_SingleRefresh == C11_OneInFlight /\ C11_SerialOutcome

-----------------------------------------------------------------------------
(* Properties of reads during a refresh *)

\* The refreshes that have opened the file for writing and not yet written
\* their dataset.
Writing == {w \in Workers : upd[w].pc = "dump"}

\* The complete datasets a read may return now: what the file holds, or,
\* while a refresh writes, the dataset of before that refresh or the one
\* it has merged.
Snapshots ==
    IF Writing = {} THEN {read_ip_data(file)}
    ELSE {read_ip_data(upd[w].file0) : w \in Writing}
            \cup {upd[w].current_data : w \in Writing}

C12Step(p) ==
    (/\ req[p].pc = "wrapper" /\ req'[p].pc = "idle"
     /\ req'[p].invoked /\ req'[p].endpoint = "get_block_ips") =>
        /\ req'[p].response.status = HTTP_OK
        /\ req'[p].response.body.openai \in Snapshots

\* C12: a GET /block-ips served while a refresh runs answers with the
\* complete dataset of before the refresh or with the complete merged one,
\* never with the default of an emptied or half-written file.
C12_AtomicReads == [][\A p \in Workers : C12Step(p)]_vars

-----------------------------------------------------------------------------
(* Properties of format_time_until_reset *)

\* The countdown text as the specification states it for s >= 0.
SpecCountdown(s) ==
    LET H == s \div 3600
        M == (s % 3600) \div 60
        S == s % 60
    IN  IF s >= 3600 THEN <<H, " hours, ", M, " minutes">>
        ELSE IF s >= 60 THEN <<M, " minutes, ", S, " seconds">>
        ELSE <<S, " seconds">>

\* C18: for every whole number of seconds s >= 0 the text is
\* "H hours, M minutes" from one hour on, "M minutes, S seconds" from one
\* minute on and "S seconds" below, with 0, 59, 60 and 3661 giving
\* "0 seconds", "59 seconds", "1 minutes, 0 seconds", "1 hours, 1 minutes".
C18_Countdown ==
    formatted # <<>> =>
       /\ formatted = SpecCountdown(seconds)
       /\ seconds = 0 => formatted = <<0, " seconds">>
       /\ seconds = 59 => formatted = <<59, " seconds">>
       /\ seconds = 60 => formatted = <<1, " minutes, ", 0, " seconds">>
       /\ seconds = 3661 => formatted = <<1, " hours, ", 1, " minutes">>

\* The call with two hours, two minutes and five seconds has returned.
C18_Witness ==
    seconds = 7325 /\ formatted = <<2, " hours, ", 2, " minutes">>

====
